---------------------------- MODULE Spec2Model ----------------------------
(***************************************************************************)
(* BPTracker backend: the readings store behind the REST router            *)
(* (src/src/routers/readings.py), its request validation                   *)
(* (src/src/schemas.py), the table (src/src/models.py) and the one-shot    *)
(* SQLite -> PostgreSQL copy (src/scripts/migrate_sqlite_to_postgres.py).  *)
(*                                                                         *)
(* Every request handler runs in its own session and ends with one commit, *)
(* so each handler is one action.  migrate_data is a synchronous script:   *)
(* one action computes the whole run, commit by commit.                    *)
(***************************************************************************)
EXTENDS Integers, Sequences, FiniteSets, TLC

(***************************************************************************)
(* Program constants.                                                      *)
(***************************************************************************)
SystolicMin == 40
SystolicMax == 300
DiastolicMin == 20
DiastolicMax == 200
HeartRateMin == 20
HeartRateMax == 250
SkipMin == 0
LimitMin == 1
LimitMax == 100
StatusOk == 200
StatusCreated == 201
StatusNoContent == 204
StatusNotFound == 404
StatusUnprocessable == 422
StatusServerError == 500

(***************************************************************************)
(* Bounds of the model.                                                    *)
(***************************************************************************)
\* Spec stops creating once the id sequence has reached MaxId
MaxId == 2
\* SpecList stops creating once the id sequence has reached MaxListId
MaxListId == 3
\* timestamps and clock readings are 0..MaxTime
MaxTime == 1
\* list is called with skip up to MaxSkip
MaxSkip == 3
\* the source table of a migration holds ids 1..n, n <= MaxSource
MaxSource == 2
\* a client pages through the list with a page size of 1..MaxPage
MaxPage == 2

Times == 0..MaxTime

\* Optional[datetime]: <<>> is None, <<t>> is the datetime t
NoTimestamp == <<>>
OptionalTimes == {NoTimestamp} \cup {<<t>> : t \in Times}

Max(S) == CHOOSE m \in S : \A x \in S : x <= m
MinOf(a, b) == IF a <= b THEN a ELSE b

(***************************************************************************)
(* Request bodies the model submits to create: the two corners of the      *)
(* accepted box, a point inside it, and each corner pushed one past each   *)
(* bound.                                                                  *)
(***************************************************************************)
Triple(s, d, h) == [systolic |-> s, diastolic |-> d, heart_rate |-> h]

InputTriples ==
    { Triple(SystolicMin, DiastolicMin, HeartRateMin),
      Triple(SystolicMax, DiastolicMax, HeartRateMax),
      Triple(120, 80, 70),
      Triple(SystolicMin - 1, DiastolicMin, HeartRateMin),
      Triple(SystolicMax + 1, DiastolicMax, HeartRateMax),
      Triple(SystolicMin, DiastolicMin - 1, HeartRateMin),
      Triple(SystolicMax, DiastolicMax + 1, HeartRateMax),
      Triple(SystolicMin, DiastolicMin, HeartRateMin - 1),
      Triple(SystolicMax, DiastolicMax, HeartRateMax + 1) }

SkipInputs == (SkipMin - 1)..MaxSkip
LimitInputs == {LimitMin - 1, LimitMin, LimitMin + 1, LimitMax, LimitMax + 1}
IdInputs == 0..(MaxId + 1)

(***************************************************************************)
(* State.                                                                  *)
(*   rows     the committed rows of table blood_pressure_readings          *)
(*   seq      last value of the id sequence blood_pressure_readings_id_seq *)
(*   last     the last operation: its arguments, its response, the store   *)
(*            it started from                                              *)
(*   created  for every id handed out by create and not deleted since:     *)
(*            the values the caller sent (history)                         *)
(*   wiped    <<n>> from a delete_all that removed n rows until the next   *)
(*            accepted create, <<>> otherwise (history)                    *)
(*   inflight the requests being served side by side, each with the place  *)
(*            its handler has reached and what its query returned          *)
(*   pager    a client reading the list page by page: page size, next      *)
(*            offset, the pages received so far                            *)
(*   srv      the machine local_server.py runs on: the backend processes,  *)
(*            the port, the PID file, and the place restart has reached    *)
(***************************************************************************)
VARIABLES rows, seq, last, created, wiped, inflight, pager, srv

vars == <<rows, seq, last, created, wiped, inflight, pager, srv>>

Ids(R) == {r.id : r \in R}

\* the query without its filter: the first row of the table, whatever its id
First_NoFilter(R, reading_id) ==
    IF R = {} THEN <<>> ELSE <<CHOOSE r \in R : TRUE>>

\* db.query(BloodPressureReading).filter(id == reading_id).first()
First(R, reading_id) ==
    LET hit == {r \in R : r.id = reading_id}
    IN  IF hit = {} THEN <<>> ELSE <<CHOOSE r \in hit : TRUE>>

NoTriple == Triple(0, 0, 0)

NoLast ==
    [op |-> "none", status |-> 0, id |-> 0, skip |-> 0, limit |-> 0,
     input |-> NoTriple, ts |-> NoTimestamp, now |-> 0, body |-> <<>>,
     pre |-> {}, preSeq |-> 0, outcome |-> "none", commits |-> 0,
     src |-> {}, srcExists |-> FALSE, setvalOk |-> FALSE]

NoRequests == <<>>
NoPager == [n |-> 0, offset |-> 0, pages |-> <<>>, done |-> FALSE]
NoServer == [pc |-> "none"]

Init ==
    /\ rows = {}
    /\ seq = 0
    /\ last = NoLast
    /\ created = {}
    /\ wiped = <<>>
    /\ inflight = NoRequests
    /\ pager = NoPager
    /\ srv = NoServer

(***************************************************************************)
(* Validation (schemas.py): Field(..., ge=lo, le=hi).                      *)
(***************************************************************************)
FieldGeLe(v, lo, hi) == lo <= v /\ v <= hi

\* a ge/le pair read as gt/lt
BloodPressureReadingBase_Exclusive(t) ==
    /\ SystolicMin < t.systolic /\ t.systolic < SystolicMax
    /\ DiastolicMin < t.diastolic /\ t.diastolic < DiastolicMax
    /\ HeartRateMin < t.heart_rate /\ t.heart_rate < HeartRateMax

BloodPressureReadingBase(t) ==
    /\ FieldGeLe(t.systolic, SystolicMin, SystolicMax)
    /\ FieldGeLe(t.diastolic, DiastolicMin, DiastolicMax)
    /\ FieldGeLe(t.heart_rate, HeartRateMin, HeartRateMax)

\* Query(0, ge=0) and Query(100, ge=1, le=100)
SkipLimitValid(skip, limit) ==
    /\ skip >= SkipMin
    /\ FieldGeLe(limit, LimitMin, LimitMax)

(***************************************************************************)
(* ORDER BY timestamp DESC: the store returns the rows in some order that  *)
(* is descending in timestamp; rows of equal timestamp come in any order.  *)
(***************************************************************************)
RECURSIVE Permutations_(_)
Permutations_(S) ==
    IF S = {} THEN {<<>>}
    ELSE UNION { { <<x>> \o p : p \in Permutations_(S \ {x}) } : x \in S }

IsTimestampDesc(s) ==
    \A i \in 1..(Len(s) - 1) : s[i].timestamp >= s[i + 1].timestamp

OrderByTimestampDesc(R) == {s \in Permutations_(R) : IsTimestampDesc(s)}

\* .offset(skip).limit(limit): drops one row too many
OffsetLimit_OffByOne(s, skip, limit) ==
    IF skip + 1 >= Len(s) THEN <<>>
    ELSE SubSeq(s, skip + 2, MinOf(Len(s), skip + 1 + limit))

\* .offset(skip).limit(limit)
OffsetLimit(s, skip, limit) ==
    IF skip >= Len(s) THEN <<>>
    ELSE SubSeq(s, skip + 1, MinOf(Len(s), skip + limit))

(***************************************************************************)
(* The id sequence and the session's writes.                               *)
(***************************************************************************)
\* nextval('blood_pressure_readings_id_seq')
NextVal(s) == s + 1

\* reading.timestamp or datetime.now(): the clock, whatever was sent
TimestampOrNow_AlwaysNow(ts, now) == now

\* reading.timestamp or datetime.now(): a datetime is always truthy, None is not
TimestampOrNow(ts, now) == IF ts # NoTimestamp THEN ts[1] ELSE now

\* the row built with systolic and diastolic exchanged
NewRow_SwapsPressures(id, t, timestamp) ==
    [id |-> id, systolic |-> t.diastolic, diastolic |-> t.systolic,
     heart_rate |-> t.heart_rate, timestamp |-> timestamp]

\* models.BloodPressureReading(systolic=..., diastolic=..., heart_rate=..., timestamp=...)
NewRow(id, t, timestamp) ==
    [id |-> id, systolic |-> t.systolic, diastolic |-> t.diastolic,
     heart_rate |-> t.heart_rate, timestamp |-> timestamp]

\* db.delete(reading): every row up to that id
DeleteRow_UpTo(R, reading) == {r \in R : r.id > reading.id}

\* db.delete(reading); db.commit()
DeleteRow(R, reading) == R \ {reading}

\* db.query(BloodPressureReading).delete(): all rows but one
DeleteAllRows_KeepsOne(R) == IF R = {} THEN {} ELSE {CHOOSE r \in R : TRUE}

\* db.query(BloodPressureReading).delete(); db.commit()
DeleteAllRows(R) == {}

Called(op) == [NoLast EXCEPT !.op = op, !.pre = rows, !.preSeq = seq]

(***************************************************************************)
(* GET /readings/?skip=&limit=                                             *)
(***************************************************************************)
get_readings(skip, limit) ==
    /\ IF ~SkipLimitValid(skip, limit)
       THEN last' = [Called("list") EXCEPT !.status = StatusUnprocessable,
                                           !.skip = skip, !.limit = limit]
       ELSE \E ordered \in OrderByTimestampDesc(rows) :
                last' = [Called("list") EXCEPT
                            !.status = StatusOk, !.skip = skip, !.limit = limit,
                            !.body = OffsetLimit(ordered, skip, limit)]
    /\ UNCHANGED <<rows, seq, created, wiped>>

(***************************************************************************)
(* POST /readings/                                                         *)
(***************************************************************************)
create_reading(t, ts, now) ==
    IF ~BloodPressureReadingBase(t)
    THEN /\ last' = [Called("create") EXCEPT !.status = StatusUnprocessable,
                                             !.input = t, !.ts = ts, !.now = now]
         /\ UNCHANGED <<rows, seq, created, wiped>>
    ELSE /\ LET id == NextVal(seq)
                db_reading == NewRow(id, t, TimestampOrNow(ts, now))
            IN  /\ seq' = id
                /\ IF id \in Ids(rows)
                   THEN \* IntegrityError at db.commit(): the insert is lost, the id is spent
                        /\ last' = [Called("create") EXCEPT
                                       !.status = StatusServerError,
                                       !.input = t, !.ts = ts, !.now = now]
                        /\ UNCHANGED <<rows, created, wiped>>
                   ELSE /\ rows' = rows \cup {db_reading}
                        /\ created' = {c \in created : c.id # id}
                                      \cup {[id |-> id, input |-> t]}
                        /\ wiped' = <<>>
                        /\ last' = [Called("create") EXCEPT
                                       !.status = StatusCreated, !.id = id,
                                       !.input = t, !.ts = ts, !.now = now,
                                       !.body = <<db_reading>>]

(***************************************************************************)
(* GET /readings/{reading_id}                                              *)
(***************************************************************************)
get_reading(reading_id) ==
    /\ LET reading == First(rows, reading_id)
       IN  IF reading = <<>>
           THEN last' = [Called("get") EXCEPT !.status = StatusNotFound,
                                              !.id = reading_id]
           ELSE last' = [Called("get") EXCEPT !.status = StatusOk,
                                              !.id = reading_id,
                                              !.body = reading]
    /\ UNCHANGED <<rows, seq, created, wiped>>

(***************************************************************************)
(* DELETE /readings/{reading_id}                                           *)
(***************************************************************************)
delete_reading(reading_id) ==
    LET reading == First(rows, reading_id)
    IN  IF reading = <<>>
        THEN /\ last' = [Called("delete") EXCEPT !.status = StatusNotFound,
                                                 !.id = reading_id]
             /\ UNCHANGED <<rows, seq, created, wiped>>
        ELSE /\ rows' = DeleteRow(rows, reading[1])
             /\ created' = {c \in created : c.id # reading_id}
             /\ last' = [Called("delete") EXCEPT !.status = StatusNoContent,
                                                 !.id = reading_id]
             /\ UNCHANGED <<seq, wiped>>

(***************************************************************************)
(* DELETE /readings/                                                       *)
(***************************************************************************)
delete_all_readings ==
    /\ rows' = DeleteAllRows(rows)
    /\ created' = {}
    /\ wiped' = <<Cardinality(rows)>>
    /\ last' = [Called("delete_all") EXCEPT !.status = StatusNoContent]
    /\ UNCHANGED seq


(***************************************************************************)
(* migrate_sqlite_to_postgres.py                                           *)
(***************************************************************************)
\* a row of the SQLite table: the timestamp is text, and there is a note column
SourceRow(i) ==
    [id |-> i,
     systolic |-> IF i % 2 = 0 THEN SystolicMax + 1 ELSE SystolicMin,
     diastolic |-> 80, heart_rate |-> 70,
     timestamp |-> <<"iso", i % (MaxTime + 1)>>, note |-> ""]

SourceTable(n) == {SourceRow(i) : i \in 1..n}
Sources == {SourceTable(n) : n \in 0..MaxSource}

\* sqlite_cursor.fetchall() of SELECT * FROM blood_pressure_readings: rowid order
RECURSIVE FetchAll(_)
FetchAll(src) ==
    IF src = {} THEN <<>>
    ELSE LET lowest == CHOOSE r \in src : \A q \in src : r.id <= q.id
         IN  <<lowest>> \o FetchAll(src \ {lowest})

\* datetime.fromisoformat(text)
FromIsoFormat(text) == text[2]

\* the mapped class with a note column
ModelColumns_WithNote ==
    {"id", "systolic", "diastolic", "heart_rate", "timestamp", "note"}

\* the columns of models.BloodPressureReading
ModelColumns == {"id", "systolic", "diastolic", "heart_rate", "timestamp"}

\* the keyword arguments migrate_data passes to BloodPressureReading(...)
MigrateKwargs ==
    {"id", "systolic", "diastolic", "heart_rate", "timestamp", "note"}

\* the declarative constructor raises TypeError for a keyword that is no
\* attribute of the mapped class
ConstructorAccepts(kwargs) == kwargs \subseteq ModelColumns

\* the row a source row becomes in the target
NewReading(reading_dict) ==
    [id |-> reading_dict.id, systolic |-> reading_dict.systolic,
     diastolic |-> reading_dict.diastolic,
     heart_rate |-> reading_dict.heart_rate,
     timestamp |-> FromIsoFormat(reading_dict.timestamp)]

\* the loop with each row in a try of its own: a row whose construction
\* raises is skipped and the loop goes on
RECURSIVE MigrateLoop_SkipsBadRows(_, _, _)
MigrateLoop_SkipsBadRows(readings, i, pending) ==
    IF i > Len(readings) THEN [raised |-> FALSE, pending |-> pending]
    ELSE IF ~ConstructorAccepts(MigrateKwargs)
         THEN MigrateLoop_SkipsBadRows(readings, i + 1, pending)
         ELSE MigrateLoop_SkipsBadRows(readings, i + 1,
                                       pending \cup {NewReading(readings[i])})

\* for reading in readings: new_reading = BloodPressureReading(...); db.add(new_reading)
RECURSIVE MigrateLoop(_, _, _)
MigrateLoop(readings, i, pending) ==
    IF i > Len(readings) THEN [raised |-> FALSE, pending |-> pending]
    ELSE IF ~ConstructorAccepts(MigrateKwargs)
         THEN [raised |-> TRUE, pending |-> pending]
         ELSE MigrateLoop(readings, i + 1,
                          pending \cup {NewReading(readings[i])})

\* SELECT setval('blood_pressure_readings_id_seq', (SELECT MAX(id) FROM ...)):
\* MAX over no rows is NULL and setval of NULL does nothing
Setval(s, R) == IF R = {} THEN s ELSE Max(Ids(R))

\* the try block of migrate_data on target (R, s): what ends up committed,
\* how many db.commit() calls succeeded, and which message is printed.
\* db.execute is handed a plain string naming a PostgreSQL sequence: whether
\* that statement raises depends on the installed SQLAlchemy and on the
\* target, so setvalOk is an input of the run.
MigrateRun(R, s, src, setvalOk) ==
    LET loop == MigrateLoop(FetchAll(src), 1, {})
    IN  IF loop.raised
        THEN \* except: db.rollback() drops what was added
             [rows |-> R, seq |-> s, outcome |-> "error", commits |-> 0]
        ELSE IF Ids(loop.pending) \cap Ids(R) # {}
        THEN \* first db.commit(): IntegrityError on the primary key
             [rows |-> R, seq |-> s, outcome |-> "error", commits |-> 0]
        ELSE IF ~setvalOk
        THEN \* db.execute(...) raises after the rows were committed
             [rows |-> R \cup loop.pending, seq |-> s,
              outcome |-> "error", commits |-> 1]
        ELSE [rows |-> R \cup loop.pending,
              seq |-> Setval(s, R \cup loop.pending),
              outcome |-> "success", commits |-> 2]

migrate_data(srcExists, src, setvalOk) ==
    IF ~srcExists
    THEN \* returns before anything is read: the other two inputs play no part
         /\ src = {}
         /\ ~setvalOk
         /\ last' = [Called("migrate") EXCEPT !.outcome = "not_found"]
         /\ UNCHANGED <<rows, seq, created, wiped>>
    ELSE LET run == MigrateRun(rows, seq, src, setvalOk)
         IN  /\ rows' = run.rows
             /\ seq' = run.seq
             /\ last' = [Called("migrate") EXCEPT
                            !.outcome = run.outcome, !.commits = run.commits,
                            !.src = src, !.srcExists = TRUE,
                            !.setvalOk = setvalOk]
             /\ UNCHANGED <<created, wiped>>

Next ==
    /\ \/ \E skip \in SkipInputs, limit \in LimitInputs : get_readings(skip, limit)
       \/ \E t \in InputTriples, ts \in OptionalTimes, now \in Times :
              seq < MaxId /\ create_reading(t, ts, now)
       \/ \E reading_id \in IdInputs : get_reading(reading_id)
       \/ \E reading_id \in IdInputs : delete_reading(reading_id)
       \/ delete_all_readings
       \/ \E srcExists \in BOOLEAN, src \in Sources, setvalOk \in BOOLEAN :
              migrate_data(srcExists, src, setvalOk)
    /\ UNCHANGED <<inflight, pager, srv>>

Spec == Init /\ [][Next]_vars

(***************************************************************************)
(* The store under list: readings that differ in their timestamp only, all *)
(* stamped by the clock, and every call of list.                           *)
(***************************************************************************)
NextList ==
    /\ \/ \E now \in Times :
              seq < MaxListId /\ create_reading(Triple(120, 80, 70), NoTimestamp, now)
       \/ \E skip \in SkipInputs, limit \in LimitInputs : get_readings(skip, limit)
       \/ \E reading_id \in 1..MaxListId : delete_reading(reading_id)
       \/ delete_all_readings
    /\ UNCHANGED <<inflight, pager, srv>>

SpecList == Init /\ [][NextList]_vars

(***************************************************************************)
(* Two requests served side by side, each in a session of its own.  get is *)
(* one SELECT and delete_all one DELETE; delete_reading is a SELECT, then, *)
(* if a row came back, a DELETE of that primary key at db.commit().  The   *)
(* store runs each statement on what is committed when it runs.            *)
(***************************************************************************)
\* the readings in the store when the two requests arrive
StoredReadings(n) == {NewRow(i, Triple(120, 80, 70), 0) : i \in 1..n}

Request(op, id) ==
    [op |-> op, id |-> id, pc |-> "start", reading |-> <<>>, status |-> 0]

Requests ==
    {Request("delete", id) : id \in 1..(MaxId + 1)}
    \cup {Request("get", id) : id \in 1..(MaxId + 1)}
    \cup {Request("delete_all", 0)}

InitConc ==
    /\ \E n \in 0..MaxId :
           /\ rows = StoredReadings(n)
           /\ seq = n
           /\ created = {[id |-> i, input |-> Triple(120, 80, 70)] : i \in 1..n}
    /\ last = NoLast
    /\ wiped = <<>>
    /\ inflight \in [1..2 -> Requests]
    /\ pager = NoPager
    /\ srv = NoServer

\* the DELETE matched no row and the session raises StaleDataError
DeleteCommitStatus_Stale(matched) ==
    IF matched = 1 THEN StatusNoContent ELSE StatusServerError

\* db.delete(reading); db.commit(): a DELETE by primary key that matches no
\* row is warned about, not raised, and the handler returns 204 all the same
DeleteCommitStatus(matched) == StatusNoContent

\* the query of get_reading and of delete_reading, and the 404 or the 200
RequestQuery(i) ==
    /\ inflight[i].pc = "start"
    /\ inflight[i].op \in {"get", "delete"}
    /\ LET reading == First(rows, inflight[i].id)
       IN  inflight' =
               [inflight EXCEPT ![i] =
                   IF reading = <<>>
                   THEN [@ EXCEPT !.pc = "done", !.status = StatusNotFound]
                   ELSE IF @.op = "get"
                   THEN [@ EXCEPT !.pc = "done", !.status = StatusOk,
                                  !.reading = reading]
                   ELSE [@ EXCEPT !.pc = "found", !.reading = reading]]
    /\ UNCHANGED <<rows, seq, last, created, wiped, pager, srv>>

\* db.delete(reading); db.commit() of a delete_reading whose query found a row
RequestDeleteCommit(i) ==
    /\ inflight[i].pc = "found"
    /\ LET matched == Cardinality({r \in rows : r.id = inflight[i].reading[1].id})
       IN  /\ rows' = DeleteRow(rows, inflight[i].reading[1])
           /\ created' = {c \in created : c.id # inflight[i].id}
           /\ inflight' = [inflight EXCEPT ![i] =
                              [@ EXCEPT !.pc = "done",
                                        !.status = DeleteCommitStatus(matched)]]
    /\ UNCHANGED <<seq, last, wiped, pager, srv>>

\* delete_all_readings: one DELETE and its commit
RequestDeleteAll(i) ==
    /\ inflight[i].pc = "start"
    /\ inflight[i].op = "delete_all"
    /\ rows' = DeleteAllRows(rows)
    /\ created' = {}
    /\ inflight' = [inflight EXCEPT ![i] =
                       [@ EXCEPT !.pc = "done", !.status = StatusNoContent]]
    /\ UNCHANGED <<seq, last, wiped, pager, srv>>

NextConc ==
    \E i \in 1..2 :
        \/ RequestQuery(i)
        \/ RequestDeleteCommit(i)
        \/ RequestDeleteAll(i)

SpecConc == InitConc /\ [][NextConc]_vars

(***************************************************************************)
(* A client reading the whole list page by page: list(0, n), list(n, n),   *)
(* ... until a page comes back empty, with no write in between.  Every     *)
(* page is a query of its own, ordered by the store on its own.            *)
(***************************************************************************)
StartPaging(n) ==
    /\ pager = NoPager
    /\ pager' = [n |-> n, offset |-> 0, pages |-> <<>>, done |-> FALSE]
    /\ UNCHANGED <<rows, seq, last, created, wiped, inflight, srv>>

NextPage ==
    /\ pager # NoPager
    /\ ~pager.done
    /\ get_readings(pager.offset, pager.n)
    /\ pager' = [pager EXCEPT !.offset = @ + pager.n,
                              !.pages = @ \o last'.body,
                              !.done = (last'.body = <<>>)]
    /\ UNCHANGED <<inflight, srv>>

NextPages ==
    \/ /\ pager = NoPager
       /\ \E now \in Times :
              seq < MaxListId /\ create_reading(Triple(120, 80, 70), NoTimestamp, now)
       /\ UNCHANGED <<inflight, pager, srv>>
    \/ \E n \in 1..MaxPage : StartPaging(n)
    \/ NextPage

SpecPages == Init /\ [][NextPages]_vars

(***************************************************************************)
(* scripts/local_server.py: the restart command.                           *)
(*                                                                         *)
(* srv.old is the backend process that was there before the command,       *)
(* srv.new the one the command spawns; a process is alive or not, listens  *)
(* on the backend port or not, and has been sent a signal or not.  The PID *)
(* file is absent ("none") or names one of the two.  srv.pc is the place   *)
(* the command has reached; processes exit and bind on their own time.     *)
(***************************************************************************)
\* for i in range(20)
StartTries == 20

NoProcess == [alive |-> FALSE, listening |-> FALSE, signalled |-> FALSE]
ListeningProcess == [alive |-> TRUE, listening |-> TRUE, signalled |-> FALSE]
SilentProcess == [alive |-> TRUE, listening |-> FALSE, signalled |-> FALSE]

Machine(old, pidfile, pg) ==
    [pc |-> "restart", old |-> old, new |-> NoProcess, pidfile |-> pidfile,
     pg |-> pg, backend_stopped |-> FALSE, pg_stopped |-> FALSE,
     pg_success |-> FALSE, backend_success |-> FALSE, i |-> 0,
     echo |-> "Restarting services..."]

InitRestart ==
    /\ rows = {}
    /\ seq = 0
    /\ last = NoLast
    /\ created = {}
    /\ wiped = <<>>
    /\ inflight = NoRequests
    /\ pager = NoPager
    /\ srv \in {Machine(old, pidfile, pg) :
                   old \in {NoProcess, ListeningProcess, SilentProcess},
                   pidfile \in {"none", "old"}, pg \in BOOLEAN}

Process(m, pid) == IF pid = "old" THEN m.old ELSE m.new

\* os.kill(pid, 0) succeeds
is_process_running(m, pid) == Process(m, pid).alive

\* the PID in the file, if the file is there and that process runs
get_pid_from_file(m) ==
    IF m.pidfile # "none" /\ is_process_running(m, m.pidfile)
    THEN m.pidfile ELSE "none"

\* a connect to 127.0.0.1:8078 is accepted
is_port_in_use(m) == m.old.listening \/ m.new.listening

\* os.kill(pid, SIGTERM): the process is told to stop and stops when it has
\* shut down; os.kill(pid, SIGKILL): it is gone at once
Signalled(proc, force) ==
    IF ~proc.alive THEN proc
    ELSE IF force THEN NoProcess
    ELSE [proc EXCEPT !.signalled = TRUE]

\* stop_backend(): kill_process returns as soon as the signal is sent
StopBackendResult(m, permitted) ==
    LET backend_pid == get_pid_from_file(m)
    IN  IF backend_pid = "none"
        THEN [m EXCEPT !.backend_stopped = ~is_port_in_use(m)]
        ELSE IF permitted
        THEN [m EXCEPT !.old = Signalled(m.old, FALSE), !.pidfile = "none",
                       !.backend_stopped = TRUE]
        ELSE \* EPERM for SIGTERM and for SIGKILL
             [m EXCEPT !.backend_stopped = FALSE]

ServerStep(m) ==
    /\ srv' = m
    /\ UNCHANGED <<rows, seq, last, created, wiped, inflight, pager>>

\* restart(): the check for a backend that runs without a PID file
restart ==
    /\ srv.pc = "restart"
    /\ IF get_pid_from_file(srv) = "none" /\ is_port_in_use(srv)
       THEN ServerStep([srv EXCEPT !.pc = "done",
                           !.echo = "Please stop the backend server manually before restarting"])
       ELSE ServerStep([srv EXCEPT !.pc = "stop_backend"])

stop_backend(permitted) ==
    /\ srv.pc = "stop_backend"
    /\ ServerStep([StopBackendResult(srv, permitted) EXCEPT !.pc = "stop_postgresql"])

\* stop_postgresql(), then restart's check of the two results and its sleep
stop_postgresql(stops) ==
    /\ srv.pc = "stop_postgresql"
    /\ LET pg_stopped == ~srv.pg \/ stops
           pg == srv.pg /\ ~stops
       IN  IF ~srv.backend_stopped \/ ~pg_stopped
           THEN ServerStep([srv EXCEPT !.pc = "done", !.pg = pg,
                               !.pg_stopped = pg_stopped,
                               !.echo = "Failed to stop some services, cannot restart"])
           ELSE ServerStep([srv EXCEPT !.pc = "start_postgresql", !.pg = pg,
                               !.pg_stopped = pg_stopped])

start_postgresql(starts) ==
    /\ srv.pc = "start_postgresql"
    /\ ServerStep([srv EXCEPT !.pc = "start_backend",
                              !.pg = srv.pg \/ starts,
                              !.pg_success = srv.pg \/ starts])

\* start_backend() up to the Popen and the saving of its PID
start_backend ==
    /\ srv.pc = "start_backend"
    /\ IF get_pid_from_file(srv) # "none" \/ is_port_in_use(srv)
       THEN \* "Backend server is already running": nothing is spawned
            ServerStep([srv EXCEPT !.pc = "report", !.backend_success = TRUE])
       ELSE ServerStep([srv EXCEPT !.pc = "wait", !.new = SilentProcess,
                               !.pidfile = "new", !.i = 0])

\* one turn of the loop that waits for the port
start_backend_wait ==
    /\ srv.pc = "wait"
    /\ srv.i < StartTries
    /\ IF is_port_in_use(srv)
       THEN ServerStep([srv EXCEPT !.pc = "report", !.backend_success = TRUE])
       ELSE ServerStep([srv EXCEPT !.i = @ + 1])

\* the port never came up: the process is killed and the PID file removed
start_backend_gives_up ==
    /\ srv.pc = "wait"
    /\ srv.i = StartTries
    /\ ServerStep([srv EXCEPT !.pc = "report", !.backend_success = FALSE,
                              !.new = Signalled(srv.new, TRUE),
                              !.pidfile = "none"])

\* the last lines of restart()
restart_report ==
    /\ srv.pc = "report"
    /\ ServerStep([srv EXCEPT !.pc = "done",
                      !.echo = IF srv.pg_success /\ srv.backend_success
                               THEN "All services restarted successfully"
                               ELSE "Some services failed to restart"])

RestartRunning == srv.pc \notin {"none", "done"}

\* a process that was sent SIGTERM has shut down and exits
BackendExits ==
    /\ RestartRunning
    /\ srv.old.alive
    /\ srv.old.signalled
    /\ ServerStep([srv EXCEPT !.old = NoProcess])

\* the spawned uvicorn has bound the port
NewBackendListens ==
    /\ RestartRunning
    /\ srv.new.alive
    /\ ~srv.new.listening
    /\ ~is_port_in_use(srv)
    /\ ServerStep([srv EXCEPT !.new = ListeningProcess])

\* the spawned uvicorn exits before it listens
NewBackendExits ==
    /\ RestartRunning
    /\ srv.new.alive
    /\ ~srv.new.listening
    /\ ServerStep([srv EXCEPT !.new = NoProcess])

NextRestart ==
    \/ restart
    \/ \E permitted \in BOOLEAN : stop_backend(permitted)
    \/ \E stops \in BOOLEAN : stop_postgresql(stops)
    \/ \E starts \in BOOLEAN : start_postgresql(starts)
    \/ start_backend
    \/ start_backend_wait
    \/ start_backend_gives_up
    \/ restart_report
    \/ BackendExits
    \/ NewBackendListens
    \/ NewBackendExits

SpecRestart == InitRestart /\ [][NextRestart]_vars

(***************************************************************************)
(* Properties.                                                             *)
(***************************************************************************)
InBounds(r) ==
    /\ r.systolic \in SystolicMin..SystolicMax
    /\ r.diastolic \in DiastolicMin..DiastolicMax
    /\ r.heart_rate \in HeartRateMin..HeartRateMax

SameValues(r, t) ==
    /\ r.systolic = t.systolic
    /\ r.diastolic = t.diastolic
    /\ r.heart_rate = t.heart_rate

\* C1: create accepts a reading if and only if systolic is in 40..300,
\* diastolic in 20..200 and heart_rate in 20..250, bounds included; a
\* rejected create inserts nothing and leaves the store as it was.
C1_CreateAcceptsIffInBounds ==
    last.op = "create" =>
        /\ last.status = StatusCreated <=> InBounds(last.input)
        /\ last.status = StatusCreated =>
               /\ Len(last.body) = 1
               /\ rows = last.pre \cup {last.body[1]}
               /\ last.body[1] \notin last.pre
        /\ last.status # StatusCreated =>
               /\ rows = last.pre
               /\ seq = last.preSeq
               /\ last.body = <<>>

\* a create with systolic one past the upper bound was rejected on a store
\* that holds a reading accepted with systolic at the upper bound
C1_Witness ==
    /\ last.op = "create"
    /\ last.input.systolic = SystolicMax + 1
    /\ last.status = StatusUnprocessable
    /\ \E r \in rows : r.systolic = SystolicMax

\* C2: get on an id that create returned, the reading not deleted since,
\* yields a reading with that id and the systolic, diastolic and heart_rate
\* that were sent to create.
C2_CreateThenGet ==
    last.op = "get" =>
        \A c \in created :
            c.id = last.id =>
                /\ last.status = StatusOk
                /\ Len(last.body) = 1
                /\ last.body[1].id = c.id
                /\ SameValues(last.body[1], c.input)

\* get answered for an id that create handed out, with a second reading in the store
C2_Witness ==
    /\ last.op = "get"
    /\ \E c \in created : c.id = last.id /\ c.input.systolic = SystolicMax
    /\ Cardinality(rows) >= 2

\* C3: for skip >= 0 and limit in 1..100, list answers with at most limit
\* readings, each timestamp >= the next one's, and the answer is the window
\* [skip, skip+limit) of the stored readings in descending timestamp order:
\* the reading at place j of the answer has at most skip+j-1 stored readings
\* strictly newer than it and at least skip+j stored readings at least as
\* new; the answer is empty when skip is at or past the number of readings.
C3_ListWindow ==
    (last.op = "list" /\ last.skip >= 0 /\ last.limit \in 1..100) =>
        LET b == last.body
            n == Cardinality(last.pre)
            newer(r) == {q \in last.pre : q.timestamp > r.timestamp}
            notOlder(r) == {q \in last.pre : q.timestamp >= r.timestamp}
        IN  /\ last.status = StatusOk
            /\ Len(b) <= last.limit
            /\ \A j \in 1..(Len(b) - 1) : b[j].timestamp >= b[j + 1].timestamp
            /\ Len(b) = IF last.skip >= n THEN 0
                        ELSE MinOf(last.limit, n - last.skip)
            /\ \A j \in 1..Len(b) : b[j] \in last.pre
            /\ \A i, j \in 1..Len(b) : i # j => b[i] # b[j]
            /\ \A j \in 1..Len(b) :
                   /\ Cardinality(newer(b[j])) <= last.skip + j - 1
                   /\ Cardinality(notOlder(b[j])) >= last.skip + j
            /\ rows = last.pre

\* list(1, 1) answered with the middle one of three readings, two of them
\* of the same timestamp
C3_Witness ==
    /\ last.op = "list"
    /\ last.skip = 1
    /\ last.limit = 1
    /\ Len(last.body) = 1
    /\ Cardinality(rows) = 3
    /\ \E r, q \in rows : r # q /\ r.timestamp = q.timestamp

\* C4: get and delete on an id that is not in the store answer 404 and leave
\* the store as it was; delete on an id that is in the store answers with
\* success and removes that reading and no other.
C4_NotFoundAndDelete ==
    /\ (last.op \in {"get", "delete"} /\ last.id \notin Ids(last.pre)) =>
           /\ last.status = StatusNotFound
           /\ rows = last.pre
           /\ seq = last.preSeq
    /\ (last.op = "delete" /\ last.id \in Ids(last.pre)) =>
           /\ last.status = StatusNoContent
           /\ rows = {r \in last.pre : r.id # last.id}
    /\ (last.op = "get" /\ last.id \in Ids(last.pre)) =>
           /\ last.status = StatusOk
           /\ rows = last.pre

\* delete was called with an id that is not in a store holding other readings
C4_Witness ==
    /\ last.op = "delete"
    /\ last.id \notin Ids(last.pre)
    /\ last.status = StatusNotFound
    /\ Cardinality(rows) >= 2

\* C5: after delete_all, with no create since, list with valid skip and
\* limit answers with the empty sequence, whatever the store held before.
C5_ListAfterDeleteAll ==
    (last.op = "list" /\ wiped # <<>> /\ SkipLimitValid(last.skip, last.limit)) =>
        /\ last.status = StatusOk
        /\ last.body = <<>>

\* list(0, 100) was answered after a delete_all that removed two or more readings
C5_Witness ==
    /\ last.op = "list"
    /\ last.skip = 0
    /\ last.limit = LimitMax
    /\ last.status = StatusOk
    /\ wiped # <<>>
    /\ wiped[1] >= 2

\* C6: migrating a non-empty source into an empty target leaves the target
\* with exactly the source's rows, ids and values kept, and the next create
\* gets the id one past the highest migrated id.
C6_MigrationCopiesSource ==
    (last.op = "migrate" /\ last.srcExists /\ last.src # {} /\ last.pre = {}) =>
        /\ rows = {NewReading(r) : r \in last.src}
        /\ NextVal(seq) = Max(Ids(last.src)) + 1

C8_ReadingsImmutable ==
    [][ /\ \A r \in rows : r.id \in Ids(rows') => r \in rows'
        /\ last'.op \in {"list", "get"} => rows' = rows
        /\ last'.op = "create" =>
               /\ rows \subseteq rows'
               /\ Cardinality(rows' \ rows) <= 1
        /\ last'.op = "delete" =>
               /\ rows' \subseteq rows
               /\ Ids(rows \ rows') \subseteq {last'.id}
      ]_vars

\* a delete removed one reading from a store and another reading, created
\* before it, is still there
C8_Witness ==
    /\ last.op = "delete"
    /\ last.status = StatusNoContent
    /\ \E r \in rows : r.id < last.id

\* C9: every stored reading has systolic in 40..300, diastolic in 20..200
\* and heart_rate in 20..250, whatever operations produced the store.
C9_StoredReadingsInBounds ==
    \A r \in rows : InBounds(r)

\* a migration whose source holds a reading out of bounds has run against a
\* store that holds readings
C9_Witness ==
    /\ last.op = "migrate"
    /\ \E r \in last.src : ~InBounds(r)
    /\ rows # {}

\* C10: create stores the caller's timestamp when one is sent and the time
\* of the call when none is sent.
C10_TimestampDefault ==
    (last.op = "create" /\ last.status = StatusCreated) =>
        /\ last.ts # NoTimestamp =>
               last.body[1].timestamp = last.ts[1]
        /\ last.ts = NoTimestamp =>
               last.body[1].timestamp = last.now
        /\ last.body[1] \in rows

\* a create that sent a timestamp other than the time of the call was accepted
C10_Witness ==
    /\ last.op = "create"
    /\ last.status = StatusCreated
    /\ last.ts # NoTimestamp
    /\ last.ts[1] # last.now

\* C11: a migration run against a target that already holds the ids of the
\* source's rows reports an error, and the target then holds exactly the
\* rows it held before: none added, changed or removed, and no id twice.
C11_RerunFailsAndKeepsTarget ==
    (/\ last.op = "migrate"
     /\ last.srcExists
     /\ last.src # {}
     /\ Ids(last.src) \subseteq Ids(last.pre)) =>
        /\ last.outcome = "error"
        /\ rows = last.pre
        /\ seq = last.preSeq
        /\ Cardinality(Ids(rows)) = Cardinality(rows)

\* a migration of source ids 1..2 has run against a target holding ids 1 and 2
C11_Witness ==
    /\ last.op = "migrate"
    /\ Ids(last.src) = {1, 2}
    /\ Ids(last.pre) = {1, 2}
    /\ last.setvalOk

RequestsDone == \A i \in 1..2 : inflight[i].pc = "done"

EndsWithSuccessOrNotFound(q) ==
    /\ q.op = "get" => q.status \in {StatusOk, StatusNotFound}
    /\ q.op = "delete" => q.status \in {StatusNoContent, StatusNotFound}
    /\ q.op = "delete_all" => q.status = StatusNoContent

\* C12 as claimed: under any interleaving of two requests, each ends with
\* its success result or with not found, and at most one delete reports
\* success for a given stored reading.
C12_AtMostOneDeleteSucceeds ==
    (inflight # NoRequests /\ RequestsDone) =>
        /\ \A i \in 1..2 : EndsWithSuccessOrNotFound(inflight[i])
        /\ ~(/\ inflight[1].op = "delete"
             /\ inflight[2].op = "delete"
             /\ inflight[1].id = inflight[2].id
             /\ inflight[1].status = StatusNoContent
             /\ inflight[2].status = StatusNoContent)

\* C12, amended: under any interleaving of two requests, each ends with its
\* success result or with not found and never with another failure; a get
\* that succeeds returns the reading of its id; once both have ended, a
\* reading whose delete reported success, or that a delete_all ran over, is
\* gone, and no other reading is.
C12_EndsWithSuccessOrNotFound ==
    /\ inflight # NoRequests =>
           \A i \in 1..2 :
               inflight[i].pc = "done" =>
                   /\ EndsWithSuccessOrNotFound(inflight[i])
                   /\ (inflight[i].op = "get" /\ inflight[i].status = StatusOk) =>
                          inflight[i].reading[1].id = inflight[i].id
    /\ (inflight # NoRequests /\ RequestsDone) =>
           LET gone == {inflight[i].id : i \in
                           {j \in 1..2 : /\ inflight[j].op = "delete"
                                         /\ inflight[j].status = StatusNoContent}}
               wipedOut == \E i \in 1..2 : inflight[i].op = "delete_all"
           IN  /\ Ids(rows) \cap gone = {}
               /\ wipedOut => rows = {}
               /\ ~wipedOut => Ids(rows) = (1..seq) \ gone

\* two deletes of the same stored reading have both ended, the second one's
\* DELETE having run after the first one's commit
C12_Witness ==
    /\ inflight # NoRequests
    /\ RequestsDone
    /\ inflight[1].op = "delete"
    /\ inflight[2].op = "delete"
    /\ inflight[1].id = inflight[2].id
    /\ inflight[1].reading # <<>>
    /\ inflight[2].reading # <<>>

\* C13: with no write between the calls, the pages list(0, N), list(N, N),
\* ... taken until an empty page hold every stored reading exactly once.
C13_PagesHoldEveryReadingOnce ==
    pager.done =>
        /\ Len(pager.pages) = Cardinality(rows)
        /\ {pager.pages[i] : i \in 1..Len(pager.pages)} = rows

\* C14: whenever restart reports 'All services restarted successfully', the
\* backend process spawned by that restart is running and listening on the
\* backend port, and the PID file holds its PID.
C14_RestartedBackendIsNew ==
    (srv.pc = "done" /\ srv.echo = "All services restarted successfully") =>
        /\ srv.new.alive
        /\ srv.new.listening
        /\ srv.pidfile = "new"
=============================================================================
